---- MODULE Spec2Model ----
(***************************************************************************)
(* Model of the thread pool of src/main.rs: ThreadPool::new, execute,      *)
(* Drop for ThreadPool, and the worker thread closure of Worker::new.      *)
(* The main thread owns the pool; worker threads share one mpsc receiver   *)
(* behind a mutex.                                                         *)
(***************************************************************************)
EXTENDS Integers, Sequences, FiniteSets, TLC

\* ---- bounds of the model ----
MaxSize == 3
MaxJobs == 4

\* size       the argument of ThreadPool::new
\* mainpc     where the owning thread is: new, live pool, the loops of drop
\* workers    ThreadPool.workers, a Vec of Worker { id, thread }
\* idx        position of the running loop of drop (1-based)
\* queue      the messages in the mpsc channel
\* lockHolder the thread holding the MutexGuard of the receiver
\* wpc        where each worker thread is in its closure
\* msg        each worker's local "message"
\* running    the jobs whose job() call is in progress
\* nextJob, dequeued, started, finished, termSent, termRecv: the jobs
\*            submitted, and how often each message was sent, received, run
VARIABLES size, mainpc, workers, idx, queue, lockHolder, wpc, msg, running,
          nextJob, dequeued, started, finished, termSent, termRecv

vars == <<size, mainpc, workers, idx, queue, lockHolder, wpc, msg, running,
          nextJob, dequeued, started, finished, termSent, termRecv>>

ThreadIds == 0..(MaxSize - 1)
JobIds == 1..MaxJobs
NoWorker == -1

\* enum Message { NewJob(Job), Terminate }
NewJob(j) == [type |-> "NewJob", job |-> j]
Terminate == [type |-> "Terminate", job |-> 0]
NoMsg == [type |-> "None", job |-> 0]

\* struct Worker { id, thread: Option<JoinHandle> } as built by Worker::new
WorkerNew(id) == [id |-> id, thread |-> "Some"]

\* the ids the spawn loop of ThreadPool::new iterates over: 0..size
SpawnIdsInclusive == 0..size
SpawnIds == 0..(size - 1)

\* a thread that has been spawned and has not left its closure
Alive(w) == wpc[w] \in {"lock", "recv", "dispatch", "call", "run"}
Dead == {w \in ThreadIds : wpc[w] = "dead"}
Stopped == {w \in ThreadIds : wpc[w] = "stopped"}

\* The Receiver lives in an Arc: one handle is the local of ThreadPool::new
\* (dropped when new returns), one clone is owned by each worker closure.
ReceiverLeaked == TRUE
ReceiverAlive == mainpc = "spawn" \/ \E w \in ThreadIds : Alive(w)

\* Sender::send puts the message at the back of the channel
EnqueueFront(q, m) == <<m>> \o q
Enqueue(q, m) == Append(q, m)

\* mpsc::channel() is unbounded: a send never waits for room
SendReadyBounded == Len(queue) < 1
SendReady == TRUE

Init ==
    /\ size \in 0..MaxSize
    /\ mainpc = "start"
    /\ workers = <<>>
    /\ idx = 0
    /\ queue = <<>>
    /\ lockHolder = NoWorker
    /\ wpc = [w \in ThreadIds |-> "none"]
    /\ msg = [w \in ThreadIds |-> NoMsg]
    /\ running = {}
    /\ nextJob = 1
    /\ dequeued = [j \in JobIds |-> 0]
    /\ started = [j \in JobIds |-> 0]
    /\ finished = [j \in JobIds |-> 0]
    /\ termSent = 0
    /\ termRecv = [w \in ThreadIds |-> 0]

\* ---- main thread: ThreadPool::new ----
\* assert!(size > 0)
AssertSizeMissing == TRUE
AssertSize == size > 0

New ==
    /\ mainpc = "start"
    /\ mainpc' = IF AssertSize THEN "spawn" ELSE "panic_assert"
    /\ UNCHANGED <<size, workers, idx, queue, lockHolder, wpc, msg, nextJob,
                   dequeued, started, finished, termSent, termRecv>>
    /\ UNCHANGED running

Spawn ==
    /\ mainpc = "spawn"
    /\ Len(workers) < Cardinality(SpawnIds)
    /\ LET id == Len(workers) IN
          /\ workers' = Append(workers, WorkerNew(id))
          /\ wpc' = [wpc EXCEPT ![id] = "lock"]
    /\ UNCHANGED <<size, mainpc, idx, queue, lockHolder, msg, nextJob,
                   dequeued, started, finished, termSent, termRecv>>
    /\ UNCHANGED running

NewReturn ==
    /\ mainpc = "spawn"
    /\ Len(workers) = Cardinality(SpawnIds)
    /\ mainpc' = "live"
    /\ UNCHANGED <<size, workers, idx, queue, lockHolder, wpc, msg, nextJob,
                   dequeued, started, finished, termSent, termRecv>>
    /\ UNCHANGED running

\* ---- main thread: ThreadPool::execute ----
Execute ==
    /\ mainpc = "live"
    /\ nextJob <= MaxJobs
    /\ SendReady
    /\ IF ReceiverAlive
         THEN /\ queue' = Enqueue(queue, NewJob(nextJob))
              /\ nextJob' = nextJob + 1
              /\ UNCHANGED mainpc
         ELSE /\ mainpc' = "panic_send"
              /\ UNCHANGED <<queue, nextJob>>
    /\ UNCHANGED <<size, workers, idx, lockHolder, wpc, msg,
                   dequeued, started, finished, termSent, termRecv>>
    /\ UNCHANGED running

\* ---- main thread: Drop for ThreadPool ----
\* number of iterations of "for _ in &self.workers"
SendCountShort == Len(workers) - 1
SendCountLong == Len(workers) + 1
SendCount == Len(workers)

BeginDrop ==
    /\ mainpc = "live"
    /\ mainpc' = "drop_send"
    /\ idx' = 1
    /\ UNCHANGED <<size, workers, queue, lockHolder, wpc, msg, nextJob,
                   dequeued, started, finished, termSent, termRecv>>
    /\ UNCHANGED running

DropSend ==
    /\ mainpc = "drop_send"
    /\ idx <= SendCount
    /\ SendReady
    /\ IF ReceiverAlive
         THEN /\ queue' = Enqueue(queue, Terminate)
              /\ termSent' = termSent + 1
              /\ idx' = idx + 1
              /\ UNCHANGED mainpc
         ELSE /\ mainpc' = "panic_send"
              /\ UNCHANGED <<queue, termSent, idx>>
    /\ UNCHANGED <<size, workers, lockHolder, wpc, msg, nextJob,
                   dequeued, started, finished, termRecv>>
    /\ UNCHANGED running

DropSendDoneEarly ==
    /\ mainpc = "drop_send"
    /\ idx > 1
    /\ mainpc' = "drop_join"
    /\ idx' = 1
    /\ UNCHANGED <<size, workers, queue, lockHolder, wpc, msg, nextJob, running,
                   dequeued, started, finished, termSent, termRecv>>

DropSendDone ==
    /\ mainpc = "drop_send"
    /\ idx > SendCount
    /\ mainpc' = "drop_join"
    /\ idx' = 1
    /\ UNCHANGED <<size, workers, queue, lockHolder, wpc, msg, nextJob,
                   dequeued, started, finished, termSent, termRecv>>
    /\ UNCHANGED running

DropTake ==
    /\ mainpc = "drop_join"
    /\ idx <= Len(workers)
    /\ IF workers[idx].thread = "Some"
         THEN /\ workers' = [workers EXCEPT ![idx].thread = "None"]
              /\ mainpc' = "joining"
              /\ UNCHANGED idx
         ELSE /\ idx' = idx + 1
              /\ UNCHANGED <<workers, mainpc>>
    /\ UNCHANGED <<size, queue, lockHolder, wpc, msg, nextJob,
                   dequeued, started, finished, termSent, termRecv>>
    /\ UNCHANGED running

\* thread.join() returns once the thread has ended: Ok after a normal
\* return, Err after a panic; unwrap() turns the Err into a panic of drop.
JoinReady(w) == wpc[w] \in {"stopped", "dead"}
JoinResultIgnored(w) == "Ok"
JoinResult(w) == IF wpc[w] = "stopped" THEN "Ok" ELSE "Err"

DropJoinNoWait ==
    /\ mainpc = "joining"
    /\ mainpc' = "drop_join"
    /\ idx' = idx + 1
    /\ UNCHANGED <<size, workers, queue, lockHolder, wpc, msg, nextJob,
                   dequeued, started, finished, termSent, termRecv>>
    /\ UNCHANGED running

DropJoin ==
    /\ mainpc = "joining"
    /\ JoinReady(workers[idx].id)
    /\ IF JoinResult(workers[idx].id) = "Ok"
         THEN /\ mainpc' = "drop_join"
              /\ idx' = idx + 1
         ELSE /\ mainpc' = "panic_join"
              /\ UNCHANGED idx
    /\ UNCHANGED <<size, workers, queue, lockHolder, wpc, msg, nextJob,
                   dequeued, started, finished, termSent, termRecv>>
    /\ UNCHANGED running

DropReturn ==
    /\ mainpc = "drop_join"
    /\ idx > Len(workers)
    /\ mainpc' = "done"
    /\ UNCHANGED <<size, workers, idx, queue, lockHolder, wpc, msg, nextJob,
                   dequeued, started, finished, termSent, termRecv>>
    /\ UNCHANGED running

\* ---- worker thread: the closure of Worker::new ----
LockNoMutex(w) ==
    /\ wpc[w] = "lock"
    /\ lockHolder' = w
    /\ wpc' = [wpc EXCEPT ![w] = "recv"]
    /\ UNCHANGED <<size, mainpc, workers, idx, queue, msg, nextJob, running,
                   dequeued, started, finished, termSent, termRecv>>

\* receiver.lock().unwrap()
Lock(w) ==
    /\ wpc[w] = "lock"
    /\ lockHolder = NoWorker
    /\ lockHolder' = w
    /\ wpc' = [wpc EXCEPT ![w] = "recv"]
    /\ UNCHANGED <<size, mainpc, workers, idx, queue, msg, nextJob,
                   dequeued, started, finished, termSent, termRecv>>
    /\ UNCHANGED running

\* the message recv() hands out: the oldest one
RecvPickTerminateFirst(q) ==
    IF \E i \in 1..Len(q) : q[i] = Terminate THEN Terminate ELSE Head(q)
RecvPick(q) == Head(q)

\* what recv() leaves in the channel after handing out the head
AfterRecvPeek(q) == q
AfterRecv(q) == Tail(q)

\* .recv().unwrap(): blocks on an empty channel, then takes the head
Recv(w) ==
    /\ wpc[w] = "recv"
    /\ queue # <<>>
    /\ LET m == RecvPick(queue) IN
          /\ msg' = [msg EXCEPT ![w] = m]
          /\ dequeued' = IF m.type = "NewJob"
                           THEN [dequeued EXCEPT ![m.job] = @ + 1]
                           ELSE dequeued
          /\ termRecv' = IF m.type = "Terminate"
                           THEN [termRecv EXCEPT ![w] = @ + 1]
                           ELSE termRecv
    /\ queue' = AfterRecv(queue)
    /\ wpc' = [wpc EXCEPT ![w] = "dispatch"]
    /\ UNCHANGED <<size, mainpc, workers, idx, lockHolder, nextJob,
                   started, finished, termSent>>
    /\ UNCHANGED running

\* the MutexGuard is a temporary of the let statement: it is dropped at the
\* end of the statement, before the match
GuardHeldForJob(w) == IF msg[w].type = "NewJob" THEN w ELSE NoWorker
GuardAfterLet(w) == NoWorker

\* where the Terminate arm leaves the thread: break ends the loop
AfterTerminateContinue == "lock"
AfterTerminate == "stopped"

\* end of the let statement (the guard is dropped) and the match on the
\* message
Dispatch(w) ==
    /\ wpc[w] = "dispatch"
    /\ lockHolder' = GuardAfterLet(w)
    /\ IF msg[w].type = "NewJob"
         THEN /\ wpc' = [wpc EXCEPT ![w] = "call"]
              /\ UNCHANGED msg
         ELSE /\ wpc' = [wpc EXCEPT ![w] = AfterTerminate]
              /\ msg' = [msg EXCEPT ![w] = NoMsg]
    /\ UNCHANGED <<size, mainpc, workers, idx, queue, nextJob, running,
                   dequeued, started, finished, termSent, termRecv>>

JobStartDetached(w) ==
    /\ wpc[w] = "call"
    /\ wpc' = [wpc EXCEPT ![w] = "lock"]
    /\ started' = [started EXCEPT ![msg[w].job] = @ + 1]
    /\ running' = running \cup {msg[w].job}
    /\ msg' = [msg EXCEPT ![w] = NoMsg]
    /\ UNCHANGED <<size, mainpc, workers, idx, queue, lockHolder, nextJob,
                   dequeued, finished, termSent, termRecv>>

\* the NewJob arm: println!, then job() is entered on the worker's thread
JobStart(w) ==
    /\ wpc[w] = "call"
    /\ wpc' = [wpc EXCEPT ![w] = "run"]
    /\ started' = [started EXCEPT ![msg[w].job] = @ + 1]
    /\ running' = running \cup {msg[w].job}
    /\ UNCHANGED <<size, mainpc, workers, idx, queue, lockHolder, msg, nextJob,
                   dequeued, finished, termSent, termRecv>>

\* job() returns: back to the top of the loop
JobFinish(w) ==
    /\ wpc[w] = "run"
    /\ finished' = [finished EXCEPT ![msg[w].job] = @ + 1]
    /\ running' = running \ {msg[w].job}
    /\ msg' = [msg EXCEPT ![w] = NoMsg]
    /\ wpc' = [wpc EXCEPT ![w] = "lock"]
    /\ UNCHANGED <<size, mainpc, workers, idx, queue, lockHolder, nextJob,
                   dequeued, started, termSent, termRecv>>

JobPanicPoison(w) ==
    /\ wpc[w] = "run"
    /\ running' = running \ {msg[w].job}
    /\ msg' = [msg EXCEPT ![w] = NoMsg]
    /\ wpc' = [wpc EXCEPT ![w] = "dead"]
    /\ lockHolder' = w
    /\ UNCHANGED <<size, mainpc, workers, idx, queue, nextJob,
                   dequeued, started, finished, termSent, termRecv>>

\* job() panics: the thread unwinds and ends; no guard is held
JobPanic(w) ==
    /\ wpc[w] = "run"
    /\ running' = running \ {msg[w].job}
    /\ msg' = [msg EXCEPT ![w] = NoMsg]
    /\ wpc' = [wpc EXCEPT ![w] = "dead"]
    /\ UNCHANGED <<size, mainpc, workers, idx, queue, lockHolder, nextJob,
                   dequeued, started, finished, termSent, termRecv>>

WorkerStep(w) == Lock(w) \/ Recv(w) \/ Dispatch(w) \/ JobStart(w)

MainNew == New \/ Spawn \/ NewReturn
MainDrop == DropSend \/ DropSendDone \/ DropTake \/ DropJoin \/ DropReturn

Next ==
    \/ New
    \/ Spawn
    \/ NewReturn
    \/ Execute
    \/ BeginDrop
    \/ DropSend
    \/ DropSendDone
    \/ DropTake
    \/ DropJoin
    \/ DropReturn
    \/ \E w \in ThreadIds : Lock(w)
    \/ \E w \in ThreadIds : Recv(w)
    \/ \E w \in ThreadIds : Dispatch(w)
    \/ \E w \in ThreadIds : JobStart(w)
    \/ \E w \in ThreadIds : JobFinish(w)
    \/ \E w \in ThreadIds : JobPanic(w)

Spec == Init /\ [][Next]_vars

TypeOK ==
    /\ size \in 0..MaxSize
    /\ mainpc \in {"start", "spawn", "live", "drop_send", "drop_join",
                   "joining", "done", "panic_assert", "panic_send", "panic_join"}
    /\ Len(queue) <= MaxJobs + MaxSize
    /\ lockHolder \in ThreadIds \cup {NoWorker}

\* Fairness: the worker threads are scheduled, a job that was started ends,
\* and drop, once entered, is straight-line code of the main thread.  The
\* caller is never obliged to construct, submit or drop.
Fairness ==
    /\ WF_vars(MainDrop)
    /\ \A w \in ThreadIds : WF_vars(WorkerStep(w))
    /\ \A w \in ThreadIds : WF_vars(JobFinish(w) \/ JobPanic(w))

FairSpec == Init /\ [][Next]_vars /\ Fairness

RunningJobs == running
Submitted == 1..(nextJob - 1)
Dropping == mainpc \in {"drop_send", "drop_join", "joining"}

\* C1: no job is dequeued or started by more than one worker (or more than
\* once), no two workers hold the same job, and when drop has returned every
\* submitted job has been executed exactly once.
C1_ExactlyOnce ==
    /\ \A j \in JobIds : dequeued[j] <= 1 /\ started[j] <= 1 /\ finished[j] <= 1
    /\ \A v, w \in ThreadIds :
          (v # w /\ msg[v].type = "NewJob") => msg[v] # msg[w]
    /\ mainpc = "done" =>
          \A j \in Submitted : dequeued[j] = 1 /\ started[j] = 1 /\ finished[j] = 1

C1_Witness == mainpc = "done" /\ nextJob = MaxJobs + 1 /\ size >= 2

\* C2: when drop has returned every worker thread has left its loop and no
\* job is in the middle of execution; a worker that is running a job has
\* not consumed a Terminate, a stopped worker has, and a running job leaves
\* the running state only by its own end (it is never preempted).
C2_Graceful ==
    /\ [](/\ mainpc = "done" =>
              /\ \A w \in SpawnIds : wpc[w] = "stopped" /\ msg[w] = NoMsg
              /\ RunningJobs = {}
          /\ \A w \in ThreadIds :
              /\ wpc[w] = "run" => termRecv[w] = 0
              /\ wpc[w] = "stopped" => termRecv[w] = 1)
    /\ [][\A w \in ThreadIds :
            wpc[w] = "run" =>
               \/ wpc'[w] = "run" /\ msg'[w] = msg[w]
               \/ wpc'[w] = "lock" /\ finished'[msg[w].job] = finished[msg[w].job] + 1
               \/ wpc'[w] = "dead"]_vars

\* drop is blocked in a join while the joined worker is still running a job
C2_Witness ==
    mainpc = "joining" /\ wpc[workers[idx].id] = "run" /\ termSent = size

\* C3: when no job fails, a drop that has begun eventually returns.
C3_ShutdownTerminates ==
    ([](Dead = {})) => ((mainpc = "drop_send") ~> (mainpc = "done"))

C3_Witness == mainpc = "done" /\ size = MaxSize /\ nextJob = MaxJobs + 1

\* C4: drop enqueues exactly one Terminate per worker, no worker dequeues a
\* second Terminate, and when drop has returned every worker has consumed
\* exactly one and the queue is empty.
C4_TerminateCount ==
    /\ termSent <= size
    /\ mainpc \in {"drop_join", "joining", "done", "panic_join"} => termSent = size
    /\ \A w \in ThreadIds : termRecv[w] <= 1
    /\ mainpc = "done" =>
          /\ queue = <<>>
          /\ \A w \in SpawnIds : termRecv[w] = 1

C4_Witness == mainpc = "done" /\ termSent = MaxSize /\ queue = <<>>

MainFailed == mainpc \in {"panic_send", "panic_join"}

\* C5 (as stated): once a worker has died in a job, a drop that has begun
\* stays blocked: it neither returns nor fails.
C5_Original == [][(Dropping /\ Dead # {}) => Dropping']_vars

\* C5 (amended): with a dead worker, drop never returns normally and does
\* not block for ever: it fails, at the join of a dead worker or at a
\* Terminate send when no worker thread is left.
C5_DropFails ==
    /\ [](Dead # {} => mainpc # "done")
    /\ [](mainpc = "panic_join" => wpc[workers[idx].id] = "dead")
    /\ ((Dropping /\ Dead # {}) ~> MainFailed)

C5_Witness ==
    /\ mainpc = "panic_join"
    /\ wpc[workers[idx].id] = "dead"
    /\ termSent = size

\* C6 (as stated): a failed job never makes the owning thread fail, neither
\* in a later execute nor in drop.
C6_Original == Dead # {} => ~MainFailed

\* C6 (amended): the step in which a job fails changes only the worker that
\* ran it (no other worker, not the queue, not the receiver lock, not the
\* owning thread), the lock is never left with a dead thread, and the other
\* workers can still take the lock, dequeue and run; the owning thread fails
\* later: in a send only when no worker thread is alive, in drop's join only
\* at a worker that died.
C6_Contained ==
    /\ [][\A w \in ThreadIds :
            (wpc[w] = "run" /\ wpc'[w] = "dead") =>
               /\ \A v \in ThreadIds \ {w} : wpc'[v] = wpc[v] /\ msg'[v] = msg[v]
               /\ queue' = queue
               /\ lockHolder' = lockHolder
               /\ mainpc' = mainpc
               /\ workers' = workers]_vars
    /\ [](/\ lockHolder \notin Dead
          /\ \A v \in ThreadIds :
                /\ (wpc[v] = "lock" /\ lockHolder = NoWorker) => ENABLED Lock(v)
                /\ (wpc[v] = "recv" /\ queue # <<>>) => ENABLED Recv(v)
                /\ wpc[v] = "dispatch" => ENABLED Dispatch(v)
                /\ wpc[v] = "call" => ENABLED JobStart(v)
          /\ mainpc = "panic_send" => ~ReceiverAlive
          /\ mainpc = "panic_join" => wpc[workers[idx].id] = "dead"
          /\ MainFailed => Dead # {})

\* one worker has died and another one is running a job dequeued afterwards
C6_Witness ==
    /\ mainpc = "live"
    /\ \E w, v \in ThreadIds :
          /\ wpc[w] = "dead"
          /\ wpc[v] = "run"
          /\ msg[v].job = MaxJobs

\* ---- N jobs that each return only after all N have started ----
AllStarted == \A j \in 1..size : started[j] >= 1

ExecuteBarrier == nextJob <= size /\ Execute

JobFinishBarrier(w) == AllStarted /\ JobFinish(w)

NextBarrier ==
    \/ New
    \/ Spawn
    \/ NewReturn
    \/ ExecuteBarrier
    \/ BeginDrop
    \/ DropSend
    \/ DropSendDone
    \/ DropTake
    \/ DropJoin
    \/ DropReturn
    \/ \E w \in ThreadIds : Lock(w)
    \/ \E w \in ThreadIds : Recv(w)
    \/ \E w \in ThreadIds : Dispatch(w)
    \/ \E w \in ThreadIds : JobStart(w)
    \/ \E w \in ThreadIds : JobFinishBarrier(w)

BarrierSpec ==
    /\ Init
    /\ [][NextBarrier]_vars
    /\ WF_vars(MainDrop)
    /\ \A w \in ThreadIds : WF_vars(WorkerStep(w))
    /\ \A w \in ThreadIds : WF_vars(JobFinishBarrier(w))

AllRunning == \A w \in 0..(size - 1) : wpc[w] = "run"

\* C7: at most N jobs are running, each worker runs at most one (the running
\* jobs are exactly the ones held by the workers inside job()), a submitted
\* job that has not started is still in the queue or in the hands of the
\* worker that just dequeued it, and a job starts only in a step of a worker
\* that was not running.
C7_AtMostN ==
    /\ [](/\ Cardinality(running) <= size
          /\ running = {msg[w].job : w \in {v \in ThreadIds : wpc[v] = "run"}}
          /\ \A v, w \in ThreadIds :
                (v # w /\ wpc[v] = "run" /\ wpc[w] = "run") => msg[v].job # msg[w].job
          /\ \A j \in Submitted :
                started[j] = 0 =>
                   \/ \E i \in 1..Len(queue) : queue[i] = NewJob(j)
                   \/ \E w \in ThreadIds :
                         wpc[w] \in {"dispatch", "call"} /\ msg[w] = NewJob(j))
    /\ [][\A j \in JobIds :
            (j \in running' /\ j \notin running) =>
               \E w \in ThreadIds :
                  /\ wpc[w] = "call"
                  /\ wpc'[w] = "run"
                  /\ msg'[w] = NewJob(j)]_vars

\* more jobs than workers: all workers run, the excess job waits in the queue
C7_Witness ==
    /\ size = MaxSize
    /\ Cardinality(running) = size
    /\ \E i \in 1..Len(queue) : queue[i].type = "NewJob"

\* C8: no worker holds the receiver lock while it runs a job, and when N
\* jobs that each wait for all N to start have been submitted and not all of
\* them have started yet, a state with all N workers running at once is
\* eventually reached.
C8_AllConcurrent ==
    /\ [](\A w \in ThreadIds : wpc[w] = "run" => lockHolder # w)
    /\ ((size >= 1 /\ nextJob > size /\ ~AllStarted) ~> AllRunning)

C8_Witness == size = MaxSize /\ AllRunning /\ Cardinality(running) = MaxSize

\* C9: on a live pool (not dropped, some worker thread alive) execute is
\* always enabled, whatever the queue holds and however busy the workers
\* are, and its step appends exactly one NewJob and changes nothing of the
\* workers or of the jobs' progress.
C9_ExecuteNeverBlocks ==
    /\ []((mainpc = "live" /\ nextJob <= MaxJobs) => ENABLED Execute)
    /\ [][(mainpc = "live" /\ ReceiverAlive /\ (nextJob' # nextJob \/ mainpc' = "panic_send")) =>
            /\ queue' = Append(queue, NewJob(nextJob))
            /\ nextJob' = nextJob + 1
            /\ mainpc' = "live"
            /\ wpc' = wpc /\ msg' = msg /\ lockHolder' = lockHolder
            /\ started' = started /\ finished' = finished /\ running' = running]_vars

\* every worker is busy, a job is already waiting, and one more was accepted
C9_Witness ==
    /\ mainpc = "live"
    /\ size = MaxSize
    /\ AllRunning
    /\ Len(queue) >= 1
    /\ nextJob = MaxJobs + 1

\* C10: once new has returned the pool holds exactly size workers with ids
\* 0..size-1 in order; at the return each has a thread polling the queue;
\* no thread beyond them exists; the workers' number and ids never change.
C10_WorkersFixed ==
    /\ [](/\ mainpc \notin {"start", "spawn", "panic_assert"} =>
                /\ size >= 1
                /\ Len(workers) = size
          /\ \A i \in 1..Len(workers) : workers[i].id = i - 1
          /\ Len(workers) <= size
          /\ \A w \in ThreadIds : wpc[w] # "none" <=> w < Len(workers)
          /\ mainpc = "spawn" =>
                \A i \in 1..Len(workers) :
                   /\ workers[i].thread = "Some"
                   /\ wpc[workers[i].id] \in {"lock", "recv"})
    /\ [][(mainpc = "spawn" /\ mainpc' = "live") =>
            \A w \in 0..(size - 1) : wpc'[w] \in {"lock", "recv"}]_vars
    /\ [][mainpc \notin {"start", "spawn"} =>
            /\ Len(workers') = Len(workers)
            /\ \A i \in 1..Len(workers) : workers'[i].id = workers[i].id]_vars

C10_Witness ==
    /\ mainpc = "done"
    /\ Len(workers) = MaxSize
    /\ workers[MaxSize].id = MaxSize - 1
    /\ nextJob > 1

\* C11: new(0) fails at the assertion: the owning thread never gets past it,
\* no worker is pushed, no thread is spawned, no message and no lock exist.
C11_ZeroSizeFails ==
    size = 0 =>
       /\ mainpc \in {"start", "panic_assert"}
       /\ workers = <<>>
       /\ \A w \in ThreadIds : wpc[w] = "none"
       /\ queue = <<>>
       /\ lockHolder = NoWorker

C11_Witness == size = 0 /\ mainpc = "panic_assert"

\* a step in which a message leaves the channel takes the oldest message
DequeueIsFifo ==
    /\ \A j \in JobIds :
          dequeued'[j] > dequeued[j] =>
             /\ \A i \in 1..(j - 1) : dequeued[i] >= 1
             /\ queue # <<>> /\ Head(queue) = NewJob(j) /\ queue' = Tail(queue)
    /\ \A w \in ThreadIds :
          termRecv'[w] > termRecv[w] =>
             queue # <<>> /\ Head(queue) = Terminate /\ queue' = Tail(queue)
    /\ Len(queue') < Len(queue) => queue' = Tail(queue)
    /\ Len(queue') > Len(queue) => SubSeq(queue', 1, Len(queue)) = queue

\* a step in which job() is entered for job j: all earlier jobs were entered
StartInSubmissionOrder ==
    \A j \in JobIds :
       started'[j] > started[j] => \A i \in 1..(j - 1) : started[i] >= 1

\* the channel holds the messages in the order they were sent
QueueInSendOrder ==
    \A i, k \in 1..Len(queue) :
       i < k =>
          /\ queue[i].type = "Terminate" => queue[k].type = "Terminate"
          /\ (queue[i].type = "NewJob" /\ queue[k].type = "NewJob") =>
                queue[i].job < queue[k].job

\* C12 (as stated): messages leave the channel in the order they were sent,
\* and jobs start in submission order.
C12_Original == [][DequeueIsFifo /\ StartInSubmissionOrder]_vars

\* C12 (amended): messages leave the channel in the order they were sent, so
\* jobs are handed to workers in submission order, and each worker enters
\* the job it holds before it dequeues again; the order in which workers
\* enter the jobs they hold is not constrained.
C12_FifoDequeue ==
    /\ []QueueInSendOrder
    /\ [][DequeueIsFifo]_vars
    /\ [](\A w \in ThreadIds : wpc[w] \in {"call", "run"} => msg[w].type = "NewJob")
    /\ [](\A j \in JobIds : started[j] <= dequeued[j])

\* job 2 is running while job 1, dequeued first, has not been entered yet
C12_Witness ==
    /\ dequeued[1] = 1 /\ started[1] = 0
    /\ started[2] = 1
    /\ \E w \in ThreadIds : wpc[w] = "call" /\ msg[w] = NewJob(1)

NoWorkerThreadLeft == \A w \in 0..(size - 1) : wpc[w] \in {"stopped", "dead"}

\* a step of execute or of drop's send loop that performs its send
SendStep ==
    /\ mainpc \in {"live", "drop_send"}
    /\ \/ mainpc' = "panic_send"
       \/ Len(queue') > Len(queue)

\* C13: a send (in execute or in drop) fails exactly when every worker
\* thread has exited; otherwise it succeeds and puts its message in the
\* channel; a failed send ends the sending thread for good.
C13_SendFailsIffNoReceiver ==
    /\ [][SendStep =>
            /\ (mainpc' = "panic_send") <=> NoWorkerThreadLeft
            /\ ~NoWorkerThreadLeft =>
                  /\ Len(queue') = Len(queue) + 1
                  /\ mainpc' = mainpc
            /\ NoWorkerThreadLeft => queue' = queue]_vars
    /\ [][mainpc = "panic_send" =>
            /\ mainpc' = "panic_send"
            /\ queue' = queue /\ nextJob' = nextJob /\ termSent' = termSent
            /\ workers' = workers]_vars
    /\ [](mainpc = "panic_send" => NoWorkerThreadLeft)

\* a send of drop failed after one worker had died and the other had stopped
C13_Witness ==
    /\ mainpc = "panic_send"
    /\ Dead # {}
    /\ Stopped # {}

\* the states of the worker loop
WState(w) ==
    CASE wpc[w] = "none" -> "NotSpawned"
      [] wpc[w] \in {"lock", "recv"} -> "Idle"
      [] wpc[w] = "dispatch" -> IF msg[w].type = "NewJob" THEN "Running" ELSE "Idle"
      [] wpc[w] \in {"call", "run"} -> "Running"
      [] wpc[w] = "stopped" -> "Stopped"
      [] wpc[w] = "dead" -> "Failed"

WStateNext(w) ==
    CASE wpc'[w] = "none" -> "NotSpawned"
      [] wpc'[w] \in {"lock", "recv"} -> "Idle"
      [] wpc'[w] = "dispatch" -> IF msg'[w].type = "NewJob" THEN "Running" ELSE "Idle"
      [] wpc'[w] \in {"call", "run"} -> "Running"
      [] wpc'[w] = "stopped" -> "Stopped"
      [] wpc'[w] = "dead" -> "Failed"

\* C14: a worker moves Idle -> Running only by dequeuing a NewJob, Running ->
\* Idle only when its job has returned, Idle -> Stopped only after dequeuing
\* a Terminate, and a worker that dequeued a Terminate does nothing else but
\* stop; Stopped is terminal (no further dequeue, no further job); the only
\* other way out of Running is the failure of the job itself.
C14_WorkerStateMachine ==
    /\ [][\A w \in ThreadIds :
            WStateNext(w) # WState(w) =>
               \/ /\ WState(w) = "NotSpawned" /\ WStateNext(w) = "Idle"
                  /\ mainpc = "spawn"
               \/ /\ WState(w) = "Idle" /\ WStateNext(w) = "Running"
                  /\ wpc[w] = "recv" /\ queue # <<>> /\ Head(queue).type = "NewJob"
                  /\ msg'[w] = Head(queue)
               \/ /\ WState(w) = "Running" /\ WStateNext(w) = "Idle"
                  /\ wpc[w] = "run"
                  /\ finished'[msg[w].job] = finished[msg[w].job] + 1
               \/ /\ WState(w) = "Idle" /\ WStateNext(w) = "Stopped"
                  /\ wpc[w] = "dispatch" /\ msg[w] = Terminate
               \/ /\ WState(w) = "Running" /\ WStateNext(w) = "Failed"
                  /\ wpc[w] = "run"
                  /\ finished' = finished]_vars
    /\ [][\A w \in ThreadIds :
            (wpc[w] = "dispatch" /\ msg[w] = Terminate /\ wpc'[w] # wpc[w]) =>
               wpc'[w] = "stopped"]_vars
    /\ [][\A w \in ThreadIds :
            wpc[w] = "stopped" =>
               /\ wpc'[w] = "stopped"
               /\ msg'[w] = NoMsg
               /\ termRecv'[w] = termRecv[w]
               /\ lockHolder' # w]_vars
    /\ [](\A w \in ThreadIds :
            wpc[w] = "stopped" => termRecv[w] = 1 /\ msg[w] = NoMsg /\ lockHolder # w)

\* a worker that ran a job to its end has stopped on a Terminate
C14_Witness ==
    \E w \in ThreadIds :
       /\ wpc[w] = "stopped"
       /\ termRecv[w] = 1
       /\ finished[1] = 1
       /\ size = 1

InReceive == {w \in ThreadIds : wpc[w] \in {"recv", "dispatch"}}

\* C15: at most one worker is inside the receive (blocked in recv or holding
\* the message it returned), and it is the holder of the lock; every other
\* idle worker waits for the lock; the holder takes one message and its next
\* step releases the lock, and nobody else dequeues meanwhile.
C15_MutualExclusion ==
    /\ [](/\ Cardinality(InReceive) <= 1
          /\ \A w \in ThreadIds : lockHolder = w <=> w \in InReceive
          /\ lockHolder = NoWorker <=> InReceive = {}
          /\ \A w \in ThreadIds :
                (WState(w) = "Idle" /\ lockHolder # w) => wpc[w] = "lock")
    /\ [][\A w \in ThreadIds :
            /\ Len(queue') < Len(queue) =>
                  (lockHolder = w <=> (wpc[w] = "recv" /\ wpc'[w] = "dispatch"))
            /\ (lockHolder = w /\ wpc[w] = "dispatch") =>
                  /\ Len(queue') >= Len(queue)
                  /\ wpc'[w] # wpc[w] => lockHolder' = NoWorker]_vars

\* one worker is blocked in recv on the empty channel, the others wait
C15_Witness ==
    /\ size = MaxSize
    /\ queue = <<>>
    /\ \E w \in ThreadIds :
          /\ lockHolder = w /\ wpc[w] = "recv"
          /\ \A v \in ThreadIds \ {w} : wpc[v] = "lock"

HandleOf(i) == workers[i].thread

\* C16: before the join loop every handle is Some; inside it the workers
\* before the current one are joined (handle None, thread ended normally),
\* the ones after it are untouched, the current one is taken exactly while
\* its join is pending; a handle changes only Some -> None, only for the
\* current worker in the take step; a join returns only when the thread has
\* ended and then moves on to the next id; after drop every handle is None.
C16_JoinOrder ==
    /\ [](/\ mainpc \in {"start", "spawn", "live", "drop_send"} =>
                \A i \in 1..Len(workers) : HandleOf(i) = "Some"
          /\ mainpc \in {"drop_join", "joining"} =>
                \A i \in 1..Len(workers) :
                   /\ i < idx => HandleOf(i) = "None" /\ wpc[workers[i].id] = "stopped"
                   /\ i > idx => HandleOf(i) = "Some"
                   /\ i = idx => (HandleOf(i) = "None" <=> mainpc = "joining")
          /\ mainpc = "done" =>
                \A i \in 1..Len(workers) :
                   HandleOf(i) = "None" /\ wpc[workers[i].id] = "stopped")
    /\ [][\A i \in 1..Len(workers) :
            workers'[i].thread # workers[i].thread =>
               /\ mainpc = "drop_join" /\ mainpc' = "joining"
               /\ i = idx /\ idx' = idx
               /\ workers[i].thread = "Some" /\ workers'[i].thread = "None"
               /\ \A k \in 1..Len(workers) \ {i} : workers'[k] = workers[k]]_vars
    /\ [][(mainpc = "joining" /\ mainpc' # "joining") =>
            /\ wpc[workers[idx].id] \in {"stopped", "dead"}
            /\ mainpc' = "drop_join" =>
                  wpc[workers[idx].id] = "stopped" /\ idx' = idx + 1]_vars

\* the join of the second worker is pending: the first is joined, the last
\* is untouched
C16_Witness ==
    /\ size = MaxSize
    /\ mainpc = "joining"
    /\ idx = 2
    /\ HandleOf(1) = "None" /\ HandleOf(2) = "None" /\ HandleOf(MaxSize) = "Some"
    /\ wpc[workers[2].id] # "stopped"

\* C17: no join is attempted before all N Terminates are in the channel, and
\* when no job fails every pending join returns, whichever worker consumed
\* which Terminate and in whatever order the workers stopped.
C17_TwoPhases ==
    /\ [](mainpc \in {"drop_join", "joining", "done", "panic_join"} => termSent = size)
    /\ [](mainpc = "drop_send" =>
            /\ termSent = idx - 1
            /\ \A i \in 1..Len(workers) : HandleOf(i) = "Some")
    /\ (([](Dead = {})) => ((mainpc = "joining") ~> (mainpc # "joining")))

\* the join of worker 0 is pending while it still runs a job and all the
\* workers with higher ids have already stopped
C17_Witness ==
    /\ size = MaxSize
    /\ mainpc = "joining"
    /\ idx = 1
    /\ wpc[0] = "run"
    /\ \A w \in 1..(size - 1) : wpc[w] = "stopped"

JobsInQueue == {i \in 1..Len(queue) : queue[i].type = "NewJob"}

\* C18: when a Terminate has been dequeued, every submitted job has been
\* dequeued before; no worker is stopped while a job waits in the channel.
C18_BacklogDrained ==
    /\ (\E w \in ThreadIds : termRecv[w] >= 1) =>
          /\ \A j \in Submitted : dequeued[j] = 1
          /\ JobsInQueue = {}
    /\ Stopped # {} =>
          /\ JobsInQueue = {}
          /\ \A j \in Submitted : dequeued[j] = 1

\* more jobs than workers were submitted; one worker has stopped while
\* another still runs a job of the backlog
C18_Witness ==
    /\ size >= 2
    /\ nextJob = MaxJobs + 1
    /\ Stopped # {}
    /\ \E v \in ThreadIds : wpc[v] = "run" /\ msg[v].job = MaxJobs

\* C19: no more workers have stopped than Terminates were sent, so when the
\* k-th Terminate is about to be sent at most k-1 workers have stopped and,
\* no job having failed, a worker thread is still alive; without a failed
\* job no send fails.
C19_TerminateSendsSucceed ==
    /\ Cardinality(Stopped) <= termSent
    /\ (mainpc = "drop_send" /\ idx <= size) =>
          /\ termSent = idx - 1
          /\ Cardinality(Stopped) <= idx - 1
          /\ Dead = {} =>
                \E w \in 0..(size - 1) : wpc[w] \notin {"none", "stopped", "dead"}
    /\ Dead = {} => mainpc # "panic_send"

\* the last Terminate is about to be sent and all workers but one have
\* already stopped
C19_Witness ==
    /\ size = MaxSize
    /\ mainpc = "drop_send"
    /\ idx = size
    /\ Cardinality(Stopped) = size - 1
    /\ Dead = {}
====
